---- MODULE Spec2Model ----
(***************************************************************************)
(* Indoor AR tracking: step detection and dead reckoning.                  *)
(*                                                                         *)
(* The model follows src/src/index_indoor.js (the adaptive StepDetector,   *)
(* IndoorPositionTracker, DeviceOrientationController and the two sensor   *)
(* listeners) and the fixed-threshold StepDetector of                      *)
(* src/unnamed/part_001.                                                    *)
(*                                                                         *)
(* Numbers.  JavaScript numbers are doubles; the model uses fixed point,   *)
(* rounding down after every multiplication or division the way a double   *)
(* rounds after every operation:                                           *)
(*   acceleration, magnitude, thresholds : 1/60 m/s^2  (9.8 -> 588,        *)
(*       10.5 -> 630, 11 -> 660, 11/1.5 -> 440, 11/2 -> 330, 0.25 -> 15)   *)
(*   filterAlpha                         : 1/100       (0.5 -> 50)         *)
(*   time                                : 1 ms                            *)
(*   angles in radians                   : 1e-6 rad                        *)
(*   sin, cos                            : 1e-4                            *)
(*   position, stepLength                : 1e-4 m      (0.65 -> 6500)      *)
(* A nullable value is <<>> (null) or <<v>>.                               *)
(***************************************************************************)
EXTENDS Integers, Sequences, FiniteSets, TLC

VARIABLES
    variant,      \* which script is loaded: "adaptive" or "fixed" detector
    tracker,      \* const tracker = new IndoorPositionTracker(0.65)
    initialYaw,   \* deviceOrientationControls.initialYaw
    handlers,     \* number of handleOrientation listeners added by connect()
    now,          \* Date.now()
    lastTime,     \* let lastTime
    moved,        \* const moved = tracker.update(accel, dt) of the last devicemotion
    configCalls,  \* setFilter, setSensitivity and setEnabled calls made so far
    moves,        \* the times position was displaced at since the last reset
    fresh,        \* after reset(): a freshly constructed tracker fed the same calls
    page          \* the document: readyState, listeners, runs of initializeSystem

vars == <<variant, tracker, initialYaw, handlers, now, lastTime, moved,
          configCalls, moves, fresh, page>>

Null == <<>>
Some(v) == <<v>>
Val(n) == n[1]

----------------------------------------------------------------------------
(* Arithmetic helpers *)

Abs(n) == IF n < 0 THEN -n ELSE n
Max(a, b) == IF a >= b THEN a ELSE b
Min(a, b) == IF a <= b THEN a ELSE b

RECURSIVE SqrtIter(_, _, _)
SqrtIter(n, lo, hi) ==
    IF lo >= hi THEN lo
    ELSE LET mid == (lo + hi + 1) \div 2
         IN  IF mid * mid <= n THEN SqrtIter(n, mid, hi)
                                ELSE SqrtIter(n, lo, mid - 1)

\* Math.sqrt on fixed-point values, rounded down
Sqrt(n) == SqrtIter(n, 0, 46340)

RECURSIVE SumSeq(_)
SumSeq(s) == IF s = <<>> THEN 0 ELSE Head(s) + SumSeq(Tail(s))

RECURSIVE MinSeq(_)
MinSeq(s) == IF Len(s) = 1 THEN Head(s) ELSE Min(Head(s), MinSeq(Tail(s)))

RECURSIVE SumSqDev(_, _)
SumSqDev(s, avg) ==
    IF s = <<>> THEN 0
    ELSE (Head(s) - avg) * (Head(s) - avg) + SumSqDev(Tail(s), avg)

\* a bounded push that would evict the newest entry of a full window
PushBoundedEvictingNewest(s, v, size) ==
    IF Len(s) >= size THEN Append(SubSeq(s, 1, size - 1), v) ELSE Append(s, v)

\* array.push(v) followed by "if (length > size) shift()"
PushBounded(s, v, size) ==
    LET t == Append(s, v) IN IF Len(t) > size THEN Tail(t) ELSE t

----------------------------------------------------------------------------
(* Program constants (in model units) *)

historySize == 10
rawHistorySize == 5
minSamples == 5
recomputeEvery == 10
minPeakInterval == 500
gravity == 588
defaultBaseThreshold == 630
initialStdDev == 60
defaultFilterAlpha == 50
minFilterAlpha == 10
maxFilterAlpha == 100
deltaThreshold == 15
sensitivityNumerator == 660
defaultStepLength == 6500
eyeHeight == 16000
fixedThreshold == 675
cooldownTime == 300

----------------------------------------------------------------------------
(* class StepDetector, adaptive variant: src/src/index_indoor.js 253-462 *)

\* constructor()
StepDetectorNew ==
    [ magnitudeHistory    |-> <<>>,
      useFilter           |-> TRUE,
      filterAlpha         |-> defaultFilterAlpha,
      filteredMagnitude   |-> gravity,
      rawMagnitudeHistory |-> <<>>,
      baseThreshold       |-> defaultBaseThreshold,
      dynamicThreshold    |-> defaultBaseThreshold,
      avgMagnitude        |-> gravity,
      magnitudeStdDev     |-> initialStdDev,
      lastPeakTime        |-> 0,
      lastMagnitude       |-> 0,
      lastDelta           |-> 0,
      stepCount           |-> 0,
      enabled             |-> TRUE,
      totalSamples        |-> 0,
      falsePositiveFilter |-> FALSE ]

\* Math.sqrt(x ** 2 + y ** 2 + z ** 2)
RawMagnitude(acceleration) ==
    Sqrt(acceleration.x * acceleration.x
         + acceleration.y * acceleration.y
         + acceleration.z * acceleration.z)

\* filterAlpha * rawMagnitude + (1 - filterAlpha) * filteredMagnitude
LowPass(d, rawMagnitude) ==
    (d.filterAlpha * rawMagnitude
     + (100 - d.filterAlpha) * d.filteredMagnitude) \div 100

\* the filter block of update: the detector after it
Filtered(d, rawMagnitude) ==
    IF d.useFilter
    THEN [d EXCEPT !.filteredMagnitude = LowPass(d, rawMagnitude),
                   !.rawMagnitudeHistory =
                       PushBounded(@, rawMagnitude, rawHistorySize)]
    ELSE d

\* the value that enters the window
Magnitude(d, rawMagnitude) ==
    IF d.useFilter THEN LowPass(d, rawMagnitude) ELSE rawMagnitude

\* the window mean
Mean(h) == SumSeq(h) \div Len(h)

\* the window standard deviation around avg
StdDev(h, avg) == Sqrt(SumSqDev(h, avg) \div Len(h))

\* the value NaN: a threshold that is not a number (a threshold that is a
\* number is never negative)
NaN == -1

\* Math.max(baseThreshold, avgMagnitude + 1 * magnitudeStdDev): NaN when
\* baseThreshold is NaN
Threshold(base, avg, std) == IF base = NaN THEN NaN ELSE Max(base, avg + 1 * std)

\* statistics that would be recomputed on every sample
RecomputeAlways(d) ==
    LET avg == Mean(d.magnitudeHistory)
        std == StdDev(d.magnitudeHistory, avg)
    IN  [d EXCEPT !.avgMagnitude = avg,
                  !.magnitudeStdDev = std,
                  !.dynamicThreshold = Threshold(d.baseThreshold, avg, std)]

\* "if (totalSamples % 10 === 0)": the statistics and the threshold
Recompute(d) ==
    IF d.totalSamples % recomputeEvery = 0
    THEN LET avg == Mean(d.magnitudeHistory)
             std == StdDev(d.magnitudeHistory, avg)
         IN  [d EXCEPT !.avgMagnitude = avg,
                       !.magnitudeStdDev = std,
                       !.dynamicThreshold = Threshold(d.baseThreshold, avg, std)]
    ELSE d

\* a peak test that would only compare with the base threshold
IsPeakAboveBase(d, magnitude, delta) == magnitude > d.baseThreshold

\* const isPeak = ...
IsPeak(d, magnitude, delta) ==
    /\ d.dynamicThreshold # NaN /\ magnitude > d.dynamicThreshold
    /\ d.lastDelta > 0
    /\ delta < 0
    /\ Abs(d.lastDelta) > deltaThreshold

\* a debounce that lets a candidate through at exactly minPeakInterval
IntervalOkInclusive(d, currentTime) ==
    currentTime - d.lastPeakTime >= minPeakInterval

\* timeSinceLastPeak > this.minPeakInterval
IntervalOk(d, currentTime) ==
    currentTime - d.lastPeakTime > minPeakInterval

\* isValidStep: peakProminence < magnitudeStdDev * 1.5 rejects
IsValidStep(d, magnitude) ==
    IF d.falsePositiveFilter
    THEN ~ (2 * (magnitude - MinSeq(d.magnitudeHistory)) < 3 * d.magnitudeStdDev)
    ELSE TRUE

\* the accepting branch: stepCount++, lastPeakTime, lastMagnitude, lastDelta
AcceptStep(d, magnitude, delta, currentTime) ==
    [d EXCEPT !.stepCount = @ + 1,
              !.lastPeakTime = currentTime,
              !.lastMagnitude = magnitude,
              !.lastDelta = delta]

\* a rejection that would restart the debounce interval
RejectStepRestartingInterval(d, magnitude, delta, currentTime) ==
    [d EXCEPT !.lastPeakTime = currentTime,
              !.lastMagnitude = magnitude,
              !.lastDelta = delta]

\* the else branch: lastMagnitude and lastDelta only
RejectStep(d, magnitude, delta, currentTime) ==
    [d EXCEPT !.lastMagnitude = magnitude, !.lastDelta = delta]

\* a detector that would start detecting with the first sample
WarmingUpNever(d) == FALSE

\* if (this.magnitudeHistory.length < 5)
WarmingUp(d) == Len(d.magnitudeHistory) < minSamples

\* a detector that would process samples while disabled
DisabledNever(d) == FALSE

\* if (!this.enabled) return false
Disabled(d) == ~ d.enabled

\* update(acceleration, deltaTime) with Date.now() = currentTime:
\* the detector after the call and the value returned
StepDetectorUpdate(d, acceleration, currentTime) ==
    IF Disabled(d) THEN [d |-> d, ret |-> FALSE]
    ELSE
    LET rawMagnitude == RawMagnitude(acceleration)
        magnitude    == Magnitude(d, rawMagnitude)
        d1 == Filtered(d, rawMagnitude)
        d2 == [d1 EXCEPT !.magnitudeHistory =
                             PushBounded(@, magnitude, historySize),
                         !.totalSamples = @ + 1]
    IN  IF WarmingUp(d2)
        THEN [d |-> [d2 EXCEPT !.lastMagnitude = magnitude], ret |-> FALSE]
        ELSE
        LET d3    == Recompute(d2)
            delta == magnitude - d3.lastMagnitude
        IN  IF /\ IsPeak(d3, magnitude, delta)
               /\ IntervalOk(d3, currentTime)
               /\ IsValidStep(d3, magnitude)
            THEN [d |-> AcceptStep(d3, magnitude, delta, currentTime),
                  ret |-> TRUE]
            ELSE [d |-> RejectStep(d3, magnitude, delta, currentTime),
                  ret |-> FALSE]

\* a reset() that would keep the window and the sample counter
StepDetectorResetKeepingWindow(d) ==
    [d EXCEPT !.stepCount = 0,
              !.rawMagnitudeHistory = <<>>,
              !.lastPeakTime = 0,
              !.avgMagnitude = gravity,
              !.filteredMagnitude = gravity,
              !.dynamicThreshold = d.baseThreshold]

\* reset()
StepDetectorReset(d) ==
    [d EXCEPT !.stepCount = 0,
              !.magnitudeHistory = <<>>,
              !.rawMagnitudeHistory = <<>>,
              !.lastPeakTime = 0,
              !.totalSamples = 0,
              !.avgMagnitude = gravity,
              !.filteredMagnitude = gravity,
              !.dynamicThreshold = d.baseThreshold]

\* a setEnabled that would also clear the counter
StepDetectorSetEnabledClearing(d, enabled) ==
    [d EXCEPT !.enabled = enabled, !.stepCount = 0]

\* setEnabled(enabled)
StepDetectorSetEnabled(d, enabled) == [d EXCEPT !.enabled = enabled]

\* a clamp with the upper bound only
ClampAlphaUpperOnly(alpha) == Min(maxFilterAlpha, alpha)

\* Math.max(0.1, Math.min(1.0, alpha))
ClampAlpha(alpha) == Max(minFilterAlpha, Min(maxFilterAlpha, alpha))

\* setFilter(enabled, alpha)
StepDetectorSetFilter(d, enabled, alpha) ==
    [d EXCEPT !.useFilter = enabled, !.filterAlpha = ClampAlpha(alpha)]

\* names every object literal inherits from Object.prototype
InheritedKeys ==
    {"constructor", "toString", "toLocaleString", "valueOf", "hasOwnProperty",
     "isPrototypeOf", "propertyIsEnumerable", "__proto__"}

\* multipliers[level] || 1.5, in tenths; an inherited name gives a function
\* or an object, which is truthy and whose numeric value is NaN
Multiplier(level) ==
    CASE level = "low"    -> 10
      [] level = "medium" -> 15
      [] level = "high"   -> 20
      [] level \in InheritedKeys -> NaN
      [] OTHER            -> 15

\* setSensitivity(level): baseThreshold = 11 / multiplier
StepDetectorSetSensitivity(d, level) ==
    [d EXCEPT !.baseThreshold =
                  IF Multiplier(level) = NaN THEN NaN
                  ELSE (sensitivityNumerator * 10) \div Multiplier(level)]

\* value.toFixed(2): the value in hundredths, rounded
ToFixed2(value) == IF value = NaN THEN NaN ELSE (value * 100 + 30) \div 60

\* a snapshot that would count the samples kept in the debug buffer
StepDetectorGetStatsBuffered(d) ==
    [ stepCount         |-> d.stepCount,
      avgMagnitude      |-> ToFixed2(d.avgMagnitude),
      filteredMagnitude |-> ToFixed2(d.filteredMagnitude),
      dynamicThreshold  |-> ToFixed2(d.dynamicThreshold),
      stdDev            |-> ToFixed2(d.magnitudeStdDev),
      samples           |-> Len(d.rawMagnitudeHistory),
      filterEnabled     |-> d.useFilter,
      filterAlpha       |-> d.filterAlpha ]

\* getStats(): the snapshot returned, its toFixed(2) fields in hundredths
StepDetectorGetStats(d) ==
    [ stepCount         |-> d.stepCount,
      avgMagnitude      |-> ToFixed2(d.avgMagnitude),
      filteredMagnitude |-> ToFixed2(d.filteredMagnitude),
      dynamicThreshold  |-> ToFixed2(d.dynamicThreshold),
      stdDev            |-> ToFixed2(d.magnitudeStdDev),
      samples           |-> d.totalSamples,
      filterEnabled     |-> d.useFilter,
      filterAlpha       |-> d.filterAlpha ]

----------------------------------------------------------------------------
(* class StepDetector, fixed-threshold variant: src/unnamed/part_001 253-298 *)

\* constructor()
SimpleDetectorNew ==
    [ lastMagnitude |-> 0,
      threshold     |-> fixedThreshold,
      cooldown      |-> 0,
      stepCount     |-> 0,
      enabled       |-> TRUE ]

\* a rising-edge test that would not wait for the cooldown
RisingEdgeNoCooldown(d, magnitude, cooldown) ==
    /\ d.enabled
    /\ magnitude > d.threshold
    /\ d.lastMagnitude < d.threshold

\* the rising-edge test
RisingEdge(d, magnitude, cooldown) ==
    /\ d.enabled
    /\ magnitude > d.threshold
    /\ d.lastMagnitude < d.threshold
    /\ cooldown = 0

\* an update that would keep the previous magnitude while the cooldown runs
SimpleDetectorUpdateDeferring(d, acceleration, deltaTime) ==
    LET cooldown  == Max(0, d.cooldown - deltaTime)
        magnitude == RawMagnitude(acceleration)
    IN  IF RisingEdge(d, magnitude, cooldown)
        THEN [d |-> [d EXCEPT !.stepCount = @ + 1,
                              !.cooldown = cooldownTime,
                              !.lastMagnitude = magnitude],
              ret |-> TRUE]
        ELSE [d |-> [d EXCEPT !.cooldown = cooldown,
                              !.lastMagnitude =
                                  IF cooldown > 0 THEN @ ELSE magnitude],
              ret |-> FALSE]

\* update(acceleration, deltaTime)
SimpleDetectorUpdate(d, acceleration, deltaTime) ==
    LET cooldown  == Max(0, d.cooldown - deltaTime)
        magnitude == RawMagnitude(acceleration)
    IN  IF RisingEdge(d, magnitude, cooldown)
        THEN [d |-> [d EXCEPT !.stepCount = @ + 1,
                              !.cooldown = cooldownTime,
                              !.lastMagnitude = magnitude],
              ret |-> TRUE]
        ELSE [d |-> [d EXCEPT !.cooldown = cooldown,
                              !.lastMagnitude = magnitude],
              ret |-> FALSE]

\* reset()
SimpleDetectorReset(d) == [d EXCEPT !.stepCount = 0]

----------------------------------------------------------------------------
(* Angles and trigonometry *)

\* Math.PI, in 1e-6 rad
PiMicro == 3141593

\* THREE.MathUtils.degToRad(degrees) = degrees * DEG2RAD, DEG2RAD = Math.PI / 180
DegToRad(degrees) == degrees * (PiMicro \div 180)

\* alpha * Math.PI / 180
AlphaToRad(alpha) == (alpha * PiMicro) \div 180

\* sine of x, 0 <= x <= pi/2 in 1e-4 rad, by its Taylor series; result in 1e-4
SinQuadrant(x) ==
    LET x2 == (x * x) \div 10000
        t3 == ((x2 * x) \div 10000) \div 6
        t5 == ((t3 * x2) \div 10000) \div 20
        t7 == ((t5 * x2) \div 10000) \div 42
        t9 == ((t7 * x2) \div 10000) \div 72
    IN  Min(10000, x - t3 + t5 - t7 + t9)

\* Math.sin(yaw), yaw in 1e-6 rad, result in 1e-4
Sin(yaw) ==
    LET y == yaw % (2 * PiMicro)
    IN  IF y <= PiMicro \div 2 THEN SinQuadrant(y \div 100)
        ELSE IF y <= PiMicro THEN SinQuadrant((PiMicro - y) \div 100)
        ELSE IF y <= PiMicro + PiMicro \div 2
             THEN - SinQuadrant((y - PiMicro) \div 100)
        ELSE - SinQuadrant((2 * PiMicro - y) \div 100)

\* Math.cos(yaw)
Cos(yaw) == Sin(yaw + PiMicro \div 2)

----------------------------------------------------------------------------
(* class IndoorPositionTracker: src/src/index_indoor.js 467-521 *)

\* new StepDetector() of the loaded script
DetectorNew(v) == IF v = "adaptive" THEN StepDetectorNew ELSE SimpleDetectorNew

\* constructor(stepLength)
TrackerNew(v, stepLength) ==
    [ position     |-> [x |-> 0, y |-> eyeHeight, z |-> 0],
      stepLength   |-> stepLength,
      stepDetector |-> DetectorNew(v),
      yaw          |-> 0 ]

\* an updateOrientation that would read a null alpha as 0
UpdateOrientationNullAsZero(t, alpha, iy) ==
    IF iy # Null
    THEN [t EXCEPT !.yaw = Val(iy) - AlphaToRad(IF alpha = Null THEN 0
                                                ELSE Val(alpha))]
    ELSE t

\* an updateOrientation that would also turn the position
UpdateOrientationMoving(t, alpha, iy) ==
    IF alpha # Null /\ iy # Null
    THEN [t EXCEPT !.yaw = Val(iy) - AlphaToRad(Val(alpha)),
                   !.position.x = t.position.z,
                   !.position.z = - t.position.x]
    ELSE t

\* updateOrientation(orientationData, initialYaw)
UpdateOrientation(t, alpha, iy) ==
    IF alpha # Null /\ iy # Null
    THEN [t EXCEPT !.yaw = Val(iy) - AlphaToRad(Val(alpha))]
    ELSE t

\* this.stepDetector.update(accelerationData, deltaTime)
DetectorUpdate(v, d, acceleration, deltaTime, currentTime) ==
    IF v = "adaptive" THEN StepDetectorUpdate(d, acceleration, currentTime)
                      ELSE SimpleDetectorUpdate(d, acceleration, deltaTime)

\* a displacement with the two axes exchanged
DisplaceSwapped(position, yaw, stepLength) ==
    [position EXCEPT !.x = @ + ((- Cos(yaw)) * stepLength) \div 10000,
                     !.z = @ + (Sin(yaw) * stepLength) \div 10000]

\* position.x += forwardX * stepLength; position.z += forwardZ * stepLength
Displace(position, yaw, stepLength) ==
    LET forwardX == Sin(yaw)
        forwardZ == - Cos(yaw)
    IN  [position EXCEPT !.x = @ + (forwardX * stepLength) \div 10000,
                         !.z = @ + (forwardZ * stepLength) \div 10000]

\* an update that would face the reference direction again after a step
TrackerUpdateTurning(v, t, acceleration, deltaTime, currentTime) ==
    LET r == DetectorUpdate(v, t.stepDetector, acceleration, deltaTime, currentTime)
    IN  IF r.ret
        THEN [t |-> [t EXCEPT !.stepDetector = r.d,
                              !.position = Displace(t.position, t.yaw, t.stepLength),
                              !.yaw = 0],
              ret |-> TRUE]
        ELSE [t |-> [t EXCEPT !.stepDetector = r.d], ret |-> FALSE]

\* an update that would report a step whenever the detector is enabled
TrackerUpdateEager(v, t, acceleration, deltaTime, currentTime) ==
    LET r == DetectorUpdate(v, t.stepDetector, acceleration, deltaTime, currentTime)
    IN  [t |-> [t EXCEPT !.stepDetector = r.d,
                         !.position = IF r.ret
                                      THEN Displace(t.position, t.yaw, t.stepLength)
                                      ELSE @],
         ret |-> t.stepDetector.enabled]

\* update(accelerationData, deltaTime): the tracker after the call and the
\* value returned
TrackerUpdate(v, t, acceleration, deltaTime, currentTime) ==
    LET r == DetectorUpdate(v, t.stepDetector, acceleration, deltaTime, currentTime)
        t1 == [t EXCEPT !.stepDetector = r.d]
    IN  IF r.ret
        THEN [t |-> [t1 EXCEPT !.position =
                                   Displace(t.position, t.yaw, t.stepLength)],
              ret |-> TRUE]
        ELSE [t |-> t1, ret |-> FALSE]

\* a tracker reset that would leave the detector alone
DetectorResetSkipped(v, d) == d

\* this.stepDetector.reset()
DetectorReset(v, d) ==
    IF v = "adaptive" THEN StepDetectorReset(d) ELSE SimpleDetectorReset(d)

\* a reset() that would zero the detector and keep the position
TrackerResetDetectorOnly(v, t) ==
    [t EXCEPT !.stepDetector = DetectorReset(v, t.stepDetector)]

\* reset()
TrackerReset(v, t) ==
    [t EXCEPT !.position = [x |-> 0, y |-> eyeHeight, z |-> 0],
              !.stepDetector = DetectorReset(v, t.stepDetector)]

\* this.stepDetector.setEnabled(enabled); both variants assign this.enabled
DetectorSetEnabled(v, d, enabled) ==
    IF v = "adaptive" THEN StepDetectorSetEnabled(d, enabled)
                      ELSE [d EXCEPT !.enabled = enabled]

\* a freshly constructed tracker given the configuration of t: the
\* constructor, then the same setFilter, setSensitivity and setEnabled values
FreshTracker(v, t) ==
    LET n == TrackerNew(v, t.stepLength)
        d == t.stepDetector
    IN  IF v = "adaptive"
        THEN [n EXCEPT !.stepDetector =
                 [StepDetectorNew EXCEPT !.useFilter = d.useFilter,
                                         !.filterAlpha = d.filterAlpha,
                                         !.baseThreshold = d.baseThreshold,
                                         !.enabled = d.enabled]]
        ELSE [n EXCEPT !.stepDetector.enabled = d.enabled]

----------------------------------------------------------------------------
(* class DeviceOrientationController: src/src/index_indoor.js 88-148 *)

\* a handleOrientation without the "initialYaw === null" test
HandleOrientationAlways(iy, alpha) ==
    IF alpha # Null THEN Some(DegToRad(Val(alpha))) ELSE iy

\* handleOrientation(event): initialYaw after one listener ran
HandleOrientation(iy, alpha) ==
    IF iy = Null /\ alpha # Null THEN Some(DegToRad(Val(alpha))) ELSE iy

\* the event handed to each of the n listeners connect() registered
RECURSIVE RunHandlers(_, _, _)
RunHandlers(iy, alpha, n) ==
    IF n = 0 THEN iy ELSE RunHandlers(HandleOrientation(iy, alpha), alpha, n - 1)

----------------------------------------------------------------------------
(* Bounds and inputs *)

\* Date.now() when the script is loaded; any value above minPeakInterval
StartTime == 1000
\* the clock runs for at most MaxTicks * 100 ms after the script is loaded
MaxTicks == 12
\* connect() is called at most MaxConnect times
MaxConnect == 2
\* at most MaxConfigCalls configuration calls are made
MaxConfigCalls == 1

\* event.accelerationIncludingGravity
Accel(x, y, z) == Some([x |-> x, y |-> y, z |-> z])

\* magnitude 9.8 with null components, magnitude 13.0, and no payload
Payloads ==
    { Accel(Null, Some(588), Null),
      Accel(Some(0), Some(468), Some(624)),
      Null }

DeltaTs == {200}
\* no alpha, and two directions 90 degrees apart
Alphas == {Null, Some(96), Some(186)}
Levels == {"low", "high"}
FilterArgs == {<<FALSE, 50>>, <<TRUE, 150>>}
Variants == {"adaptive", "fixed"}

----------------------------------------------------------------------------
(* The page: listeners and calls *)

\* the document once the script has run in a complete document:
\* initializeSystem has run once, the reset button has one click handler
PageReady ==
    [ readyState    |-> "complete",
      pending       |-> FALSE,
      executed      |-> TRUE,
      listeners     |-> <<>>,
      initialized   |-> 1,
      resetHandlers |-> 1,
      resetCalls    |-> 0 ]

Init ==
    /\ variant \in Variants
    /\ tracker = TrackerNew(variant, defaultStepLength)
    /\ initialYaw = Null
    /\ handlers = 0
    /\ now = StartTime
    /\ lastTime = StartTime
    /\ moved = FALSE
    /\ configCalls = 0
    /\ moves = <<>>
    /\ fresh = Null
    /\ page = PageReady

\* f applied to the fresh tracker, when there is one
OnFresh(f(_)) == IF fresh = Null THEN Null ELSE Some(f(Val(fresh)))

\* a substitution of gravity for a missing component
OrGravity(c) == IF c = Null THEN gravity ELSE Val(c)

\* event.accelerationIncludingGravity.x || 0
OrZero(c) == IF c = Null THEN 0 ELSE Val(c)

\* const accel = {x: ... || 0, y: ... || 0, z: ... || 0}
AccelOf(payload) ==
    [x |-> OrZero(Val(payload).x),
     y |-> OrZero(Val(payload).y),
     z |-> OrZero(Val(payload).z)]

\* deviceOrientationControls.connect()
Connect ==
    /\ handlers' = handlers + 1
    /\ UNCHANGED <<variant, tracker, initialYaw, now, lastTime, moved,
                   configCalls, moves, fresh, page>>

\* a deviceorientation event: the tracker's listener, registered first, then
\* every handleOrientation listener
DeviceOrientation(alpha) ==
    LET upd(t) == UpdateOrientation(t, alpha, initialYaw)
    IN  /\ tracker' = upd(tracker)
        /\ fresh' = OnFresh(upd)
        /\ initialYaw' = RunHandlers(initialYaw, alpha, handlers)
        /\ UNCHANGED <<variant, handlers, now, lastTime, moved, configCalls, moves, page>>

\* a devicemotion event arriving dt ms after the previous event
DeviceMotion(payload, dt) ==
    /\ now' = now + dt
    /\ lastTime' = now'
    /\ IF payload = Null
       THEN /\ moved' = FALSE
            /\ UNCHANGED <<tracker, moves, fresh>>
       ELSE LET upd(t) == TrackerUpdate(variant, t, AccelOf(payload),
                                        now' - lastTime, now')
                r == upd(tracker)
                updT(t) == upd(t).t
            IN  /\ tracker' = r.t
                /\ moved' = r.ret
                /\ moves' = IF r.t.position # tracker.position
                            THEN Append(moves, now') ELSE moves
                /\ fresh' = OnFresh(updT)
    /\ UNCHANGED <<variant, initialYaw, handlers, configCalls, page>>

\* tracker.reset() run by each of n click handlers in turn
RECURSIVE ResetTimes(_, _, _)
ResetTimes(v, t, n) ==
    IF n = 0 THEN t ELSE ResetTimes(v, TrackerReset(v, t), n - 1)

\* a click on the reset button: every click handler calls tracker.reset()
ResetClick ==
    /\ page.resetHandlers > 0
    /\ tracker' = ResetTimes(variant, tracker, page.resetHandlers)
    /\ page' = [page EXCEPT !.resetCalls = page.resetHandlers]
    /\ moves' = <<>>
    /\ fresh' = Some(FreshTracker(variant, tracker))
    /\ UNCHANGED <<variant, initialYaw, handlers, now, lastTime, moved, configCalls>>

\* tracker.stepDetector.setFilter(enabled, alpha)
SetFilter(enabled, alpha) ==
    LET upd(t) == [t EXCEPT !.stepDetector =
                       StepDetectorSetFilter(@, enabled, alpha)]
    IN  /\ variant = "adaptive"
        /\ tracker' = upd(tracker)
        /\ fresh' = OnFresh(upd)
        /\ configCalls' = configCalls + 1
        /\ UNCHANGED <<variant, initialYaw, handlers, now, lastTime, moved, moves, page>>

\* tracker.stepDetector.setSensitivity(level)
SetSensitivity(level) ==
    LET upd(t) == [t EXCEPT !.stepDetector =
                       StepDetectorSetSensitivity(@, level)]
    IN  /\ variant = "adaptive"
        /\ tracker' = upd(tracker)
        /\ fresh' = OnFresh(upd)
        /\ configCalls' = configCalls + 1
        /\ UNCHANGED <<variant, initialYaw, handlers, now, lastTime, moved, moves, page>>

\* tracker.stepDetector.setEnabled(enabled)
SetEnabled(enabled) ==
    LET upd(t) == [t EXCEPT !.stepDetector =
                       DetectorSetEnabled(variant, @, enabled)]
    IN  /\ tracker' = upd(tracker)
        /\ fresh' = OnFresh(upd)
        /\ configCalls' = configCalls + 1
        /\ UNCHANGED <<variant, initialYaw, handlers, now, lastTime, moved, moves, page>>

\* tracker.stepDetector.getStats(): a snapshot is built, nothing is assigned
GetStats ==
    /\ variant = "adaptive"
    /\ StepDetectorGetStats(tracker.stepDetector).stepCount \in Nat
    /\ UNCHANGED vars

\* the environment's limits on the events it sends
ClockAllows(dt, ticks) == now + dt <= StartTime + ticks * 100
MayConnect == handlers < MaxConnect
MayConfigure(limit) == configCalls < limit

\* every handler of the page, on the inputs of the general specification
Next ==
    \/ MayConnect /\ Connect
    \/ \E alpha \in Alphas : DeviceOrientation(alpha)
    \/ \E payload \in Payloads, dt \in DeltaTs :
           ClockAllows(dt, MaxTicks) /\ DeviceMotion(payload, dt)
    \/ ResetClick
    \/ \E f \in FilterArgs :
           MayConfigure(MaxConfigCalls) /\ SetFilter(f[1], f[2])
    \/ \E level \in Levels :
           MayConfigure(MaxConfigCalls) /\ SetSensitivity(level)
    \/ \E enabled \in BOOLEAN :
           MayConfigure(MaxConfigCalls) /\ SetEnabled(enabled)
    \/ GetStats

Spec == Init /\ [][Next]_vars

----------------------------------------------------------------------------
(* The adaptive detector under quiet input *)

\* the page that loads the adaptive detector
InitAdaptive == Init /\ variant = "adaptive"

\* the clock runs for at most MaxQuietTicks * 100 ms
MaxQuietTicks == 12
\* at most MaxQuietConfigCalls configuration calls precede the first sample
MaxQuietConfigCalls == 2

\* magnitudes 5.0, 7.0, 9.8, 10.6 and 10.9
QuietPayloads ==
    { Accel(Some(0), Some(0), Some(300)),
      Accel(Some(0), Some(420), Some(0)),
      Accel(Some(0), Some(0), Some(588)),
      Accel(Some(636), Some(0), Some(0)),
      Accel(Some(0), Some(0), Some(654)) }

QuietLevels == {"low", "medium", "high"}
QuietFilterArgs == {<<FALSE, 50>>, <<TRUE, 50>>, <<TRUE, 100>>}

\* no sample has been handled yet
BeforeFirstSample == tracker.stepDetector.totalSamples = 0 /\ now = StartTime

\* the raw magnitude of the sample is below the configured base threshold
BelowBase(payload) ==
    RawMagnitude(AccelOf(payload)) < tracker.stepDetector.baseThreshold

\* configuration calls, then samples below the base threshold only
NextQuiet ==
    \/ \E level \in QuietLevels :
           /\ BeforeFirstSample /\ MayConfigure(MaxQuietConfigCalls)
           /\ SetSensitivity(level)
    \/ \E f \in QuietFilterArgs :
           /\ BeforeFirstSample /\ MayConfigure(MaxQuietConfigCalls)
           /\ SetFilter(f[1], f[2])
    \/ \E payload \in QuietPayloads, dt \in DeltaTs :
           /\ ClockAllows(dt, MaxQuietTicks) /\ BelowBase(payload)
           /\ DeviceMotion(payload, dt)

SpecQuiet == InitAdaptive /\ [][NextQuiet]_vars

----------------------------------------------------------------------------
(* The adaptive detector fed samples only *)

\* the clock runs for at most MaxWalkTicks * 100 ms
MaxWalkTicks == 24

\* magnitudes 9.8 and 13.0
WalkPayloads ==
    { Accel(Some(0), Some(0), Some(588)),
      Accel(Some(0), Some(468), Some(624)) }

WalkDeltaTs == {200, 300}

\* update() calls only, after at most one sensitivity setting
NextWalk ==
    \/ \E level \in QuietLevels :
           /\ BeforeFirstSample /\ MayConfigure(1)
           /\ SetSensitivity(level)
    \/ \E payload \in WalkPayloads, dt \in WalkDeltaTs :
           ClockAllows(dt, MaxWalkTicks) /\ DeviceMotion(payload, dt)

SpecWalk == InitAdaptive /\ [][NextWalk]_vars

----------------------------------------------------------------------------
(* Steps taken at a constant heading *)

\* the clock runs for at most MaxStrideTicks * 100 ms
MaxStrideTicks == 18

\* 0, pi/2, pi, -pi/2 and pi/4
Headings ==
    {0, PiMicro \div 2, PiMicro, - (PiMicro \div 2), PiMicro \div 4}

\* the page after the last orientation event left the heading at h
InitStride ==
    /\ variant \in Variants
    /\ tracker \in {[TrackerNew(variant, defaultStepLength) EXCEPT !.yaw = h] :
                       h \in Headings}
    /\ initialYaw = Null
    /\ handlers = 0
    /\ now = StartTime
    /\ lastTime = StartTime
    /\ moved = FALSE
    /\ configCalls = 0
    /\ moves = <<>>
    /\ fresh = Null
    /\ page = PageReady

\* motion events only
NextStride ==
    \E payload \in Payloads, dt \in DeltaTs :
        ClockAllows(dt, MaxStrideTicks) /\ DeviceMotion(payload, dt)

SpecStride == InitStride /\ [][NextStride]_vars

----------------------------------------------------------------------------
(* The filter setting *)

\* the clock runs for at most MaxFilterTicks * 100 ms
MaxFilterTicks == 8
\* setFilter is called at most MaxFilterCalls times
MaxFilterCalls == 3

\* alpha arguments in 1/100: below 0.1, inside [0.1, 1.0] and above 1.0
FilterAlphas == {-50, 0, 5, 10, 50, 100, 101, 150}

\* setFilter calls with any of these arguments, between samples
NextFilter ==
    \/ \E enabled \in BOOLEAN, alpha \in FilterAlphas :
           MayConfigure(MaxFilterCalls) /\ SetFilter(enabled, alpha)
    \/ \E payload \in WalkPayloads, dt \in DeltaTs :
           ClockAllows(dt, MaxFilterTicks) /\ DeviceMotion(payload, dt)

SpecFilter == InitAdaptive /\ [][NextFilter]_vars

----------------------------------------------------------------------------
(* Rapid alternation with the filter disabled *)

\* the number of samples fed
MaxAlternateSamples == 20

\* the spacing of the samples
AlternateDeltaTs == {100}

\* the sample differs from the previous one: 9.8 after 13.0, 13.0 after 9.8
Alternates(payload) ==
    \/ tracker.stepDetector.totalSamples = 0
    \/ RawMagnitude(AccelOf(payload)) # tracker.stepDetector.lastMagnitude

\* setFilter(false, alpha), then alternating samples
NextAlternate ==
    \/ \E alpha \in FilterAlphas :
           /\ BeforeFirstSample /\ MayConfigure(1)
           /\ SetFilter(FALSE, alpha)
    \/ \E payload \in WalkPayloads, dt \in AlternateDeltaTs :
           /\ ~ tracker.stepDetector.useFilter
           /\ tracker.stepDetector.totalSamples < MaxAlternateSamples
           /\ Alternates(payload)
           /\ DeviceMotion(payload, dt)

SpecAlternate == InitAdaptive /\ [][NextAlternate]_vars

----------------------------------------------------------------------------
(* The adaptive detector across resets *)

\* the clock runs for at most MaxReplayTicks * 100 ms
MaxReplayTicks == 22

\* samples and reset clicks, after at most one sensitivity setting
NextReplay ==
    \/ \E level \in Levels :
           /\ BeforeFirstSample /\ MayConfigure(1)
           /\ SetSensitivity(level)
    \/ \E payload \in WalkPayloads, dt \in DeltaTs :
           ClockAllows(dt, MaxReplayTicks) /\ DeviceMotion(payload, dt)
    \/ ResetClick

SpecReplay == InitAdaptive /\ [][NextReplay]_vars

----------------------------------------------------------------------------
(* The adaptive detector under peaks of different height *)

\* the clock runs for at most MaxPaceTicks * 100 ms
MaxPaceTicks == 22

\* magnitudes 9.8, 13.0 and 20.0
PacePayloads ==
    { Accel(Some(0), Some(0), Some(588)),
      Accel(Some(0), Some(468), Some(624)),
      Accel(Some(0), Some(720), Some(960)) }

\* update() calls only, every 200 ms
NextPace ==
    \E payload \in PacePayloads, dt \in DeltaTs :
        ClockAllows(dt, MaxPaceTicks) /\ DeviceMotion(payload, dt)

SpecPace == InitAdaptive /\ [][NextPace]_vars

----------------------------------------------------------------------------
(* The adaptive detector with the prominence filter *)

\* the clock runs for at most MaxProminenceTicks * 100 ms
MaxProminenceTicks == 16

\* magnitudes 9.5, 11.0 and 12.0
ProminencePayloads ==
    { Accel(Some(0), Some(570), Some(0)),
      Accel(Some(0), Some(660), Some(0)),
      Accel(Some(0), Some(720), Some(0)) }

\* the page with the detector's falsePositiveFilter field either way
InitProminence ==
    /\ variant = "adaptive"
    /\ \E on \in BOOLEAN :
           tracker = [TrackerNew(variant, defaultStepLength)
                         EXCEPT !.stepDetector.falsePositiveFilter = on]
    /\ initialYaw = Null
    /\ handlers = 0
    /\ now = StartTime
    /\ lastTime = StartTime
    /\ moved = FALSE
    /\ configCalls = 0
    /\ moves = <<>>
    /\ fresh = Null
    /\ page = PageReady

\* setFilter(enabled, alpha) once, then update() calls
NextProminence ==
    \/ \E f \in FilterArgs :
           /\ BeforeFirstSample /\ MayConfigure(1)
           /\ SetFilter(f[1], f[2])
    \/ \E payload \in ProminencePayloads, dt \in DeltaTs :
           ClockAllows(dt, MaxProminenceTicks) /\ DeviceMotion(payload, dt)

SpecProminence == InitProminence /\ [][NextProminence]_vars

----------------------------------------------------------------------------
(* The adaptive detector under setSensitivity calls *)

\* the clock runs for at most MaxSensitivityTicks * 100 ms
MaxSensitivityTicks == 12
\* at most MaxSensitivityCalls calls of setSensitivity
MaxSensitivityCalls == 3

\* the three tiers, a name that is no tier, and a name objects inherit
SensitivityLevels == {"low", "medium", "high", "extreme", "constructor"}

\* setSensitivity(level) at any time, update() calls, reset clicks
NextSensitivity ==
    \/ \E level \in SensitivityLevels :
           MayConfigure(MaxSensitivityCalls) /\ SetSensitivity(level)
    \/ \E payload \in WalkPayloads, dt \in DeltaTs :
           ClockAllows(dt, MaxSensitivityTicks) /\ DeviceMotion(payload, dt)
    \/ ResetClick

SpecSensitivity == InitAdaptive /\ [][NextSensitivity]_vars

----------------------------------------------------------------------------
(* Both detectors under devicemotion events alone *)

\* the clock runs for at most MaxMotionTicks * 100 ms
MaxMotionTicks == 18

\* devicemotion events only, with and without a payload
NextMotion ==
    \E payload \in Payloads, dt \in DeltaTs :
        ClockAllows(dt, MaxMotionTicks) /\ DeviceMotion(payload, dt)

SpecMotion == Init /\ [][NextMotion]_vars

----------------------------------------------------------------------------
(* The fixed-threshold detector under samples, resets and setEnabled *)

\* the clock runs for at most MaxCooldownTicks * 100 ms
MaxCooldownTicks == 12
\* at most MaxCooldownCalls calls of setEnabled
MaxCooldownCalls == 2

\* the spacing of the samples
CooldownDeltaTs == {100, 200}

\* the page that loads the fixed-threshold detector
InitFixed == Init /\ variant = "fixed"

\* samples with a payload, reset clicks, and setEnabled calls
NextCooldown ==
    \/ \E payload \in WalkPayloads, dt \in CooldownDeltaTs :
           ClockAllows(dt, MaxCooldownTicks) /\ DeviceMotion(payload, dt)
    \/ ResetClick
    \/ \E enabled \in BOOLEAN :
           MayConfigure(MaxCooldownCalls) /\ SetEnabled(enabled)

SpecCooldown == InitFixed /\ [][NextCooldown]_vars

----------------------------------------------------------------------------
(* Both detectors under samples and setEnabled calls *)

\* the clock runs for at most MaxDisabledTicks * 100 ms
MaxDisabledTicks == 16
\* at most MaxDisabledCalls calls of setEnabled
MaxDisabledCalls == 2

\* samples with a payload and setEnabled calls
NextDisabled ==
    \/ \E payload \in WalkPayloads, dt \in DeltaTs :
           ClockAllows(dt, MaxDisabledTicks) /\ DeviceMotion(payload, dt)
    \/ \E enabled \in BOOLEAN :
           MayConfigure(MaxDisabledCalls) /\ SetEnabled(enabled)

SpecDisabled == Init /\ [][NextDisabled]_vars

----------------------------------------------------------------------------
(* The low-pass filter in binary floating point *)

\* The program computes in IEEE 754 binary64: every product, difference
\* and sum is rounded to the nearest number with a 53-bit significand, ties
\* to even.  Here the same arithmetic is carried out with a significand of
\* Precision bits; values are counted in units of 1 / Grid.
Precision == 9
Grid == 2 ^ 13

\* the spacing of the floating-point numbers around x
RECURSIVE UlpFrom(_, _)
UlpFrom(x, q) == IF x \div q < 2 ^ Precision THEN q ELSE UlpFrom(x, 2 * q)
Ulp(x) == UlpFrom(x, 1)

\* x rounded to the nearest floating-point number, ties to even
RoundNearestEven(x) ==
    LET q == Ulp(x)
        n == x \div q
        r == x % q
    IN  IF 2 * r > q \/ (2 * r = q /\ n % 2 = 1) THEN (n + 1) * q ELSE n * q

\* the floating-point number nearest to num / den (a decimal literal)
FloatOf(num, den) ==
    LET x == (num * Grid * 2 ^ 8) \div den
        sticky == IF (num * Grid * 2 ^ 8) % den # 0 /\ x % 2 = 0 THEN 1 ELSE 0
    IN  RoundNearestEven(x + sticky) \div 2 ^ 8

\* a * b of two floating-point numbers
FloatMul(a, b) == RoundNearestEven(a * b) \div Grid

\* a + b and a - b of two floating-point numbers
FloatAdd(a, b) == RoundNearestEven(a + b)
FloatSub(a, b) == RoundNearestEven(a - b)

\* this.filterAlpha * rawMagnitude + (1 - this.filterAlpha) * this.filteredMagnitude
FloatLowPass(filterAlpha, rawMagnitude, filteredMagnitude) ==
    FloatAdd(FloatMul(filterAlpha, rawMagnitude),
             FloatMul(FloatSub(FloatOf(1, 1), filterAlpha), filteredMagnitude))

\* at most MaxLowPassSamples samples, 200 ms apart
MaxLowPassSamples == 4
\* at most MaxLowPassCalls calls of setFilter
MaxLowPassCalls == 2

\* raw magnitudes 10.5, 12.0 and 13.0
LowPassSamples == {FloatOf(21, 2), FloatOf(12, 1), FloatOf(13, 1)}

\* arguments of setFilter: alpha 0.1, 0.3, 0.5 and 1.0
LowPassAlphas == {FloatOf(1, 10), FloatOf(3, 10), FloatOf(1, 2), FloatOf(1, 1)}

\* the fields of a new detector that the filter block reads and writes
LowPassDetectorNew ==
    [ magnitudeHistory    |-> <<>>,
      useFilter           |-> TRUE,
      filterAlpha         |-> FloatOf(1, 2),
      filteredMagnitude   |-> FloatOf(98, 10),
      rawMagnitudeHistory |-> <<>> ]

InitLowPass ==
    /\ variant = "adaptive"
    /\ tracker = [stepDetector |-> LowPassDetectorNew]
    /\ initialYaw = Null
    /\ handlers = 0
    /\ now = StartTime
    /\ lastTime = StartTime
    /\ moved = FALSE
    /\ configCalls = 0
    /\ moves = <<>>
    /\ fresh = Null
    /\ page = PageReady

\* setFilter(enabled, alpha)
LowPassSetFilter(enabled, alpha) ==
    /\ tracker' = [tracker EXCEPT
           !.stepDetector.useFilter = enabled,
           !.stepDetector.filterAlpha =
               Max(FloatOf(1, 10), Min(FloatOf(1, 1), alpha))]
    /\ configCalls' = configCalls + 1
    /\ UNCHANGED <<variant, initialYaw, handlers, now, lastTime, moved, moves, fresh, page>>

\* the filter block and the window push of update(), on a sample of the
\* given raw magnitude
LowPassSample(rawMagnitude) ==
    LET d == tracker.stepDetector
        filtered == FloatLowPass(d.filterAlpha, rawMagnitude, d.filteredMagnitude)
        magnitude == IF d.useFilter THEN filtered ELSE rawMagnitude
    IN  /\ tracker' = [tracker EXCEPT
               !.stepDetector.filteredMagnitude =
                   IF d.useFilter THEN filtered ELSE @,
               !.stepDetector.rawMagnitudeHistory =
                   IF d.useFilter
                   THEN PushBounded(@, rawMagnitude, rawHistorySize) ELSE @,
               !.stepDetector.magnitudeHistory =
                   PushBounded(@, magnitude, historySize)]
        /\ now' = now + 200
        /\ lastTime' = now'
        /\ UNCHANGED <<variant, initialYaw, handlers, moved, configCalls, moves, fresh, page>>

NextLowPass ==
    \/ \E enabled \in BOOLEAN, alpha \in LowPassAlphas :
           MayConfigure(MaxLowPassCalls) /\ LowPassSetFilter(enabled, alpha)
    \/ \E rawMagnitude \in LowPassSamples :
           /\ now < StartTime + MaxLowPassSamples * 200
           /\ LowPassSample(rawMagnitude)

SpecLowPass == InitLowPass /\ [][NextLowPass]_vars

----------------------------------------------------------------------------
(* Page load: the registration of initializeSystem *)

\* the clock runs for at most MaxLoadTicks * 100 ms
MaxLoadTicks == 8

\* document.readyState when the script executes
ReadyStates == {"loading", "interactive", "complete"}

\* target.addEventListener(type, callback, options): a listener with the
\* same type, callback and capture flag as one already registered is
\* discarded, whatever its once option
AddEventListener(listeners, callback, once) ==
    IF \E i \in 1..Len(listeners) : listeners[i].callback = callback
    THEN listeners
    ELSE Append(listeners, [callback |-> callback, once |-> once])

\* initializeSystem(): initializeResetButton() adds a click handler; the
\* adaptive script then configures the detector
InitializeSystem(v, p, t) ==
    [ p |-> [p EXCEPT !.initialized = @ + 1, !.resetHandlers = @ + 1],
      t |-> IF v = "adaptive"
            THEN [t EXCEPT !.stepDetector =
                     StepDetectorSetSensitivity(
                         StepDetectorSetFilter(@, TRUE, 50), "medium")]
            ELSE t ]

\* the document before the script has run: DOMContentLoaded is still to
\* come when the document is loading, has been dispatched when it is
\* complete, and either when it is interactive
InitLoad ==
    /\ variant \in Variants
    /\ tracker = TrackerNew(variant, defaultStepLength)
    /\ initialYaw = Null
    /\ handlers = 0
    /\ now = StartTime
    /\ lastTime = StartTime
    /\ moved = FALSE
    /\ configCalls = 0
    /\ moves = <<>>
    /\ fresh = Null
    /\ \E readyState \in ReadyStates, pending \in BOOLEAN :
           /\ readyState = "loading" => pending
           /\ readyState = "complete" => ~ pending
           /\ page = [ readyState    |-> readyState,
                       pending       |-> pending,
                       executed      |-> FALSE,
                       listeners     |-> <<>>,
                       initialized   |-> 0,
                       resetHandlers |-> 0,
                       resetCalls    |-> 0 ]

\* the end of the script.  index_indoor.js 791-801: a DOMContentLoaded
\* listener, then by readyState two more registrations or a direct call;
\* part_001 587-593: by readyState one registration or a direct call
RunScript ==
    /\ ~ page.executed
    /\ LET p0 == [page EXCEPT !.executed = TRUE]
           p1 == IF variant = "adaptive"
                 THEN [p0 EXCEPT !.listeners =
                          AddEventListener(@, "initializeSystem", FALSE)]
                 ELSE p0
           r  == IF page.readyState = "loading"
                 THEN [ p |-> IF variant = "adaptive"
                              THEN [p1 EXCEPT !.listeners =
                                       AddEventListener(
                                           AddEventListener(@, "initializeSystem", FALSE),
                                           "initializeSystem", TRUE)]
                              ELSE [p1 EXCEPT !.listeners =
                                       AddEventListener(@, "initializeSystem", TRUE)],
                        t |-> tracker ]
                 ELSE InitializeSystem(variant, p1, tracker)
       IN  page' = r.p /\ tracker' = r.t
    /\ UNCHANGED <<variant, initialYaw, handlers, now, lastTime, moved,
                   configCalls, moves, fresh>>

\* the listeners of a list run in turn
RECURSIVE RunListeners(_, _, _, _)
RunListeners(v, p, t, n) ==
    IF n = 0 THEN [p |-> p, t |-> t]
    ELSE LET r == InitializeSystem(v, p, t) IN RunListeners(v, r.p, r.t, n - 1)

\* the listeners that stay registered after a dispatch
RECURSIVE WithoutOnce(_)
WithoutOnce(listeners) ==
    IF listeners = <<>> THEN <<>>
    ELSE IF Head(listeners).once THEN WithoutOnce(Tail(listeners))
         ELSE <<Head(listeners)>> \o WithoutOnce(Tail(listeners))

\* the document dispatches DOMContentLoaded, once, after the script
DomContentLoaded ==
    /\ page.executed /\ page.pending
    /\ LET r == RunListeners(variant,
                    [page EXCEPT !.pending = FALSE,
                                 !.readyState = "interactive",
                                 !.listeners = WithoutOnce(@)],
                    tracker, Len(page.listeners))
       IN  page' = r.p /\ tracker' = r.t
    /\ UNCHANGED <<variant, initialYaw, handlers, now, lastTime, moved,
                   configCalls, moves, fresh>>

\* the page loads, then samples arrive and the reset button is clicked
NextLoad ==
    \/ RunScript
    \/ DomContentLoaded
    \/ \E payload \in WalkPayloads, dt \in DeltaTs :
           /\ page.executed
           /\ ClockAllows(dt, MaxLoadTicks) /\ DeviceMotion(payload, dt)
    \/ ResetClick

SpecLoad == InitLoad /\ [][NextLoad]_vars

----------------------------------------------------------------------------
(* Properties *)

stepCount == tracker.stepDetector.stepCount
position == tracker.position
origin == [x |-> 0, y |-> eyeHeight, z |-> 0]

\* a devicemotion event was handled: only that listener reads the clock
MotionHandled == now' # now

\* C3: after reset(), the tracker gives the same step counts and positions as
\* a freshly constructed tracker with the same configuration that is fed the
\* same samples (adaptive detector).
C3_ReplayAfterResetEqualsFresh ==
    (variant = "adaptive" /\ fresh # Null) =>
        /\ Val(fresh).position = tracker.position
        /\ Val(fresh).stepDetector.stepCount = stepCount

\* C4: without reset(), stepCount never decreases, and one handler call
\* changes it by 0 or by exactly 1.
C4_StepCountMonotone ==
    [][ResetClick \/ tracker'.stepDetector.stepCount \in {stepCount, stepCount + 1}]_vars

C4_Witness ==
    variant = "adaptive" /\ stepCount = 1 /\ fresh = Null /\ configCalls = 1

\* C5: the detection threshold of the adaptive detector is never below the
\* configured base threshold.
C5_ThresholdAtLeastBase ==
    variant = "adaptive" =>
        tracker.stepDetector.dynamicThreshold >= tracker.stepDetector.baseThreshold

\* C6: tracker.update returns true exactly when the detector counted a step
\* on that sample; a true return displaces position once by stepLength along
\* the heading, a false return leaves it; the displacements applied since
\* the last reset are as many as stepCount.
C6_StepIffDisplacedOnce ==
    /\ [](Len(moves) = stepCount)
    /\ [][MotionHandled =>
            /\ moved' <=> (tracker'.stepDetector.stepCount = stepCount + 1)
            /\ moved' => /\ tracker'.position
                              = Displace(position, tracker.yaw, tracker.stepLength)
                         /\ Len(moves') = Len(moves) + 1
            /\ ~ moved' => /\ tracker'.position = position
                           /\ tracker'.stepDetector.stepCount = stepCount]_vars

C6_Witness ==
    variant = "fixed" /\ moved /\ stepCount = 2 /\ Len(moves) = 2 /\ fresh # Null

\* C7: position changes only on an accepted step or on reset(); its y stays
\* at the eye height.
C7_PositionFrame ==
    /\ [](position.y = eyeHeight)
    /\ [][tracker'.position # position =>
            (MotionHandled /\ moved') \/ ResetClick]_vars

C7_Witness ==
    /\ position # origin /\ ~ moved /\ configCalls = 1
    /\ tracker.yaw # 0

\* C9: reset() clears the reference heading and the cached heading.
C9_ResetClearsHeading ==
    [][ResetClick => (initialYaw' = Null /\ tracker'.yaw = 0)]_vars


\* C1: after any configuration applied before the first sample, samples whose
\* raw magnitudes are all below the configured base threshold never make
\* update return true and never change stepCount.
C1_QuietInputNoStep == stepCount = 0 /\ ~ moved

\* the accepted steps, by the time of the sample on which each was accepted
lastPeakTime == tracker.stepDetector.lastPeakTime

\* C2: every accepted step is processed strictly more than minPeakInterval
\* after the previously accepted step: a sample arriving within
\* minPeakInterval of the last accepted step is never counted.
C2_Debounce ==
    /\ [](\A i \in 2..Len(moves) : moves[i] - moves[i - 1] > minPeakInterval)
    /\ [][(MotionHandled /\ stepCount > 0 /\ now' - lastPeakTime <= minPeakInterval)
            => (~ moved' /\ tracker'.stepDetector.stepCount = stepCount)]_vars

\* a second step was accepted although a sample arrived exactly
\* minPeakInterval after the first one
C2_Witness ==
    /\ Len(moves) = 2
    /\ moves[2] - moves[1] \in (minPeakInterval + 1)..(2 * minPeakInterval)
    /\ moved

\* C8: initialYaw is assigned once, from the first orientation sample with a
\* non-null alpha that a handler receives, and no later sample changes it,
\* however many handlers connect() has registered.
C8_ReferenceCapturedOnce ==
    /\ [][initialYaw # Null => initialYaw' = initialYaw]_vars
    /\ [][\A alpha \in Alphas :
            (initialYaw = Null /\ DeviceOrientation(alpha)) =>
                initialYaw' = IF alpha # Null /\ handlers > 0
                              THEN Some(DegToRad(Val(alpha))) ELSE Null]_vars

C8_Witness ==
    /\ handlers = 2
    /\ initialYaw = Some(DegToRad(96))
    /\ tracker.yaw = DegToRad(96) - AlphaToRad(186)

\* C10: once the reference was captured from alpha = t0, a sample with
\* alpha = t0 sets the heading to 0 and one with alpha = t0 + 90 sets it to
\* -pi/2.
C10_HeadingCalibration ==
    [][\A alpha \in Alphas \ {Null} :
          LET t0 == Val(alpha)
          IN  initialYaw = Some(DegToRad(t0)) =>
                /\ DeviceOrientation(Some(t0)) => tracker'.yaw = 0
                /\ DeviceOrientation(Some(t0 + 90)) =>
                       tracker'.yaw = - (PiMicro \div 2)]_vars

C12_HeadingCombinedAtStep ==
    /\ [](initialYaw = Null => tracker.yaw = 0)
    /\ [][\A alpha \in Alphas :
            DeviceOrientation(alpha) =>
                /\ tracker'.stepDetector = tracker.stepDetector
                /\ tracker'.position = position]_vars
    /\ [][MotionHandled =>
            /\ tracker'.yaw = tracker.yaw
            /\ moved' =>
                 /\ tracker'.position.x - position.x
                      = (Sin(tracker.yaw) * tracker.stepLength) \div 10000
                 /\ tracker'.position.z - position.z
                      = ((- Cos(tracker.yaw)) * tracker.stepLength) \div 10000]_vars
    /\ [][tracker'.yaw # tracker.yaw =>
            \E alpha \in Alphas \ {Null} :
                /\ initialYaw # Null
                /\ DeviceOrientation(alpha)
                /\ tracker'.yaw = Val(initialYaw) - AlphaToRad(Val(alpha))]_vars

C12_Witness ==
    /\ moved
    /\ Len(moves) = 1
    /\ initialYaw = Some(DegToRad(186))
    /\ tracker.yaw = DegToRad(186) - AlphaToRad(96)
    /\ position.x = defaultStepLength

\* C13: reset is one unit with respect to sensor events: no state in which a
\* motion or orientation handler can run has position back at the origin with
\* the detector not yet reset, or the detector reset with position not yet
\* restored.
C13_ResetIsOneUnit ==
    /\ [](~ (Len(moves) = 0 /\ stepCount # 0))
    /\ [](~ (stepCount = 0 /\ position # origin))
    /\ [][ResetClick =>
            /\ tracker'.position = origin
            /\ tracker'.stepDetector.stepCount = 0
            /\ variant = "adaptive" => tracker'.stepDetector.totalSamples = 0]_vars

C13_Witness ==
    /\ variant = "adaptive"
    /\ fresh # Null
    /\ handlers = 1
    /\ position = origin
    /\ stepCount = 0
    /\ tracker.stepDetector.totalSamples = 0
    /\ tracker.stepDetector.lastDelta < 0

\* C14: immediately after reset() of the adaptive tracker position is
\* (0, 1.6, 0), stepCount is 0, the window is empty, the sample counter is 0,
\* the filtered magnitude is 9.8 and dynamicThreshold is the configured
\* baseThreshold: nothing the next threshold computation reads predates the
\* reset.
C14_ResetPostState ==
    [][(ResetClick /\ variant = "adaptive") =>
          LET d == tracker'.stepDetector
          IN  /\ tracker'.position = origin
              /\ d.stepCount = 0
              /\ d.magnitudeHistory = <<>>
              /\ d.rawMagnitudeHistory = <<>>
              /\ d.totalSamples = 0
              /\ d.filteredMagnitude = gravity
              /\ d.dynamicThreshold = d.baseThreshold
              /\ d.baseThreshold = tracker.stepDetector.baseThreshold]_vars

C14_Witness ==
    /\ variant = "adaptive"
    /\ fresh # Null
    /\ position = origin
    /\ tracker.stepDetector.totalSamples = 0
    /\ tracker.stepDetector.magnitudeHistory = <<>>
    /\ tracker.stepDetector.lastMagnitude > 0
    /\ tracker.stepDetector.baseThreshold = 660
    /\ tracker.stepDetector.dynamicThreshold = 660

\* C15: in both variants stepCount = 0 implies that position is the origin;
\* stepCount and position are only zeroed together.
C15_ZeroCountAtOrigin ==
    /\ [](stepCount = 0 => (position.x = 0 /\ position.z = 0))
    /\ [][(stepCount # 0 /\ tracker'.stepDetector.stepCount = 0) =>
            (position # origin /\ tracker'.position = origin)]_vars

C15_Witness ==
    /\ variant = "fixed"
    /\ fresh # Null
    /\ stepCount = 0
    /\ tracker.stepDetector.cooldown > 0
    /\ position = origin

\* C16: while the window of the adaptive detector holds fewer than 5 samples
\* (the first 4 samples after construction or reset) update returns false,
\* whatever the magnitudes are.
C16_WarmUpNoStep ==
    [][(MotionHandled /\ variant = "adaptive"
          /\ Len(tracker'.stepDetector.magnitudeHistory) < minSamples) =>
            /\ ~ moved'
            /\ tracker'.stepDetector.stepCount = stepCount
            /\ tracker'.position = position]_vars

\* four samples after a reset, one of them above the threshold
C16_Witness ==
    /\ variant = "adaptive"
    /\ fresh # Null
    /\ Len(tracker.stepDetector.magnitudeHistory) = 4
    /\ tracker.stepDetector.totalSamples = 4
    /\ \E i \in 1..4 : tracker.stepDetector.magnitudeHistory[i]
                          > tracker.stepDetector.dynamicThreshold
    /\ stepCount = 0

\* C17: a configuration change applies to the next sample: a sample handled
\* after setSensitivity is tested against a threshold derived from the new
\* base threshold, so a sample counted as a step exceeds the configured base
\* threshold; a sample handled after setFilter is filtered with the new
\* enable flag and alpha.
C17_ConfigAppliesAtOnce ==
    /\ [][(MotionHandled /\ variant = "adaptive" /\ moved') =>
            tracker'.stepDetector.lastMagnitude
                > tracker.stepDetector.baseThreshold]_vars
    /\ [][\A payload \in Payloads \ {Null}, dt \in DeltaTs :
            (DeviceMotion(payload, dt) /\ variant = "adaptive"
               /\ tracker.stepDetector.enabled) =>
                LET d   == tracker.stepDetector
                    raw == RawMagnitude(AccelOf(payload))
                IN  tracker'.stepDetector.lastMagnitude =
                        IF d.useFilter
                        THEN (d.filterAlpha * raw
                              + (100 - d.filterAlpha) * d.filteredMagnitude) \div 100
                        ELSE raw]_vars

\* C18: after any sequence of setFilter calls, with alpha below 0.1, inside
\* the range or above 1.0, filterAlpha lies in [0.1, 1.0]: an out-of-range
\* alpha is replaced by the nearest bound, and the call still sets the enable
\* flag.
C18_FilterAlphaClamped ==
    /\ [](tracker.stepDetector.filterAlpha \in minFilterAlpha..maxFilterAlpha)
    /\ [][\A enabled \in BOOLEAN, alpha \in FilterAlphas :
            SetFilter(enabled, alpha) =>
                /\ tracker'.stepDetector.useFilter = enabled
                /\ tracker'.stepDetector.filterAlpha =
                       IF alpha < minFilterAlpha THEN minFilterAlpha
                       ELSE IF alpha > maxFilterAlpha THEN maxFilterAlpha
                       ELSE alpha]_vars

\* a call with alpha below the range after other calls and samples
C18_Witness ==
    /\ configCalls = MaxFilterCalls
    /\ tracker.stepDetector.filterAlpha = minFilterAlpha
    /\ ~ tracker.stepDetector.useFilter
    /\ tracker.stepDetector.filteredMagnitude # gravity

\* C19: of N well-separated peaks above the dynamic threshold, spaced at
\* least minPeakInterval apart (exactly minPeakInterval included), every one
\* is counted: a sample that completes a peak at least minPeakInterval after
\* the last counted step is counted as a step.
C19_SeparatedPeaksCounted ==
    [][LET d  == tracker.stepDetector
           d1 == tracker'.stepDetector
       IN  (/\ MotionHandled
            /\ Len(d1.magnitudeHistory) >= minSamples
            /\ d1.totalSamples = d.totalSamples + 1
            /\ d1.lastMagnitude > d1.dynamicThreshold
            /\ d.lastDelta > deltaThreshold
            /\ d1.lastMagnitude < d.lastMagnitude
            /\ now' - d.lastPeakTime >= minPeakInterval)
           => (moved' /\ d1.stepCount = d.stepCount + 1)]_vars

\* C20: a fresh adaptive detector with the filter disabled, base threshold
\* 10.5 and minPeakInterval 500 ms, fed 20 samples alternating between 9.8
\* and 13.0 at 100 ms spacing, records at most 1 step.
C20_AlternationAtMostOneStep ==
    /\ stepCount <= 1
    /\ Len(moves) <= 1

C20_Witness ==
    /\ tracker.stepDetector.totalSamples = MaxAlternateSamples
    /\ now = StartTime + 100 * MaxAlternateSamples
    /\ ~ tracker.stepDetector.useFilter
    /\ tracker.stepDetector.baseThreshold = defaultBaseThreshold
    /\ tracker.stepDetector.lastMagnitude = 780
    /\ stepCount <= 1

\* C21: a motion event with a null x, y or z component is processed as if
\* that component were 0; a motion event without an acceleration payload
\* leaves position, stepCount and the whole detector unchanged.
C21_NullComponentsAreZero ==
    /\ [][\A dt \in DeltaTs : DeviceMotion(Null, dt) => tracker' = tracker]_vars
    /\ [][\A payload \in Payloads \ {Null}, dt \in DeltaTs :
            DeviceMotion(payload, dt) =>
                LET c(v) == IF v = Null THEN 0 ELSE Val(v)
                    a == [x |-> c(Val(payload).x),
                          y |-> c(Val(payload).y),
                          z |-> c(Val(payload).z)]
                    r == TrackerUpdate(variant, tracker, a, now' - lastTime, now')
                IN  tracker' = r.t /\ moved' = r.ret]_vars

\* a sample with null components, a step, then an event without payload: the
\* cooldown of the fixed-threshold detector has not run although time passed
C21_Witness ==
    /\ variant = "fixed"
    /\ Len(moves) = 1
    /\ moves[1] = StartTime + 400
    /\ now = moves[1] + 200
    /\ ~ moved
    /\ tracker.stepDetector.cooldown = cooldownTime

C23_GetStatsReadOnly ==
    /\ [](variant = "adaptive" =>
            LET stats == StepDetectorGetStats(tracker.stepDetector)
            IN  /\ stats.stepCount = stepCount
                /\ stats.samples = tracker.stepDetector.totalSamples)
    /\ [][GetStats => (tracker' = tracker /\ initialYaw' = initialYaw
                                          /\ moves' = moves)]_vars

C23_Witness ==
    /\ variant = "adaptive"
    /\ fresh = Null
    /\ handlers = 0
    /\ stepCount = 1
    /\ tracker.stepDetector.totalSamples = 6
    /\ Len(tracker.stepDetector.rawMagnitudeHistory) = 5

\* C24: whenever the adaptive detector accepts a step, the sample processed
\* just before was a local maximum of the processed magnitudes: it exceeded
\* the sample before it by more than 0.25 and exceeds the current sample,
\* and the current sample is above the detection threshold; also for the
\* first steps after a reset.
C24_StepFollowsLocalMaximum ==
    [][(MotionHandled /\ variant = "adaptive" /\ moved') =>
          LET h == tracker'.stepDetector.magnitudeHistory
              n == Len(h)
          IN  /\ n >= 3
              /\ h[n - 1] - h[n - 2] > deltaThreshold
              /\ h[n - 1] > h[n]
              /\ h[n] > tracker'.stepDetector.dynamicThreshold]_vars

\* C25: the magnitude window never holds more than 10 entries and, n samples
\* having been processed since construction or reset, holds the last
\* min(n, 10) processed magnitudes in arrival order, each processed sample
\* being appended and the oldest evicted from a full window; the raw
\* magnitude buffer never holds more than 5 entries.
C25_WindowHoldsLastSamples ==
    /\ [](variant = "adaptive" =>
            /\ Len(tracker.stepDetector.magnitudeHistory) <= historySize
            /\ Len(tracker.stepDetector.magnitudeHistory) =
                   Min(tracker.stepDetector.totalSamples, historySize)
            /\ Len(tracker.stepDetector.rawMagnitudeHistory) <= rawHistorySize)
    /\ [][(MotionHandled /\ variant = "adaptive") =>
            LET h == tracker.stepDetector.magnitudeHistory
                m == tracker'.stepDetector.lastMagnitude
            IN  /\ tracker.stepDetector.useFilter =>
                       m = tracker'.stepDetector.filteredMagnitude
                /\ tracker'.stepDetector.totalSamples =
                       tracker.stepDetector.totalSamples + 1
                /\ tracker'.stepDetector.magnitudeHistory =
                       IF Len(h) < historySize THEN Append(h, m)
                       ELSE Append(Tail(h), m)]_vars

C25_Witness ==
    /\ variant = "adaptive"
    /\ tracker.stepDetector.totalSamples = historySize + 1
    /\ Len(tracker.stepDetector.magnitudeHistory) = historySize
    /\ Len(tracker.stepDetector.rawMagnitudeHistory) = rawHistorySize
    /\ tracker.stepDetector.magnitudeHistory[historySize] =
           tracker.stepDetector.lastMagnitude
    /\ stepCount = 2

\* C26: the detection threshold, the stored mean and the stored standard
\* deviation change only on a processed sample whose running count is a
\* multiple of 10 (the threshold and the mean also on reset); on such a
\* sample the threshold becomes max(baseThreshold, mean + 1 * stddev) of
\* the window including that sample, on any other sample all three stay.
C26_StatisticsEveryTenth ==
    [][LET d  == tracker.stepDetector
           d1 == tracker'.stepDetector
           stats(e) == <<e.dynamicThreshold, e.avgMagnitude, e.magnitudeStdDev>>
           tenth == MotionHandled /\ d1.totalSamples % recomputeEvery = 0
           avg == Mean(d1.magnitudeHistory)
           std == StdDev(d1.magnitudeHistory, avg)
       IN  /\ tenth =>
                 /\ d1.avgMagnitude = avg
                 /\ d1.magnitudeStdDev = std
                 /\ d1.dynamicThreshold = Max(d1.baseThreshold, avg + std)
           /\ (MotionHandled /\ ~ tenth) => stats(d1) = stats(d)
           /\ stats(d1) # stats(d) =>
                 \/ tenth
                 \/ /\ ResetClick
                    /\ d1.magnitudeStdDev = d.magnitudeStdDev
                    /\ d1.dynamicThreshold = d1.baseThreshold
                    /\ d1.avgMagnitude = gravity]_vars

C26_Witness ==
    /\ variant = "adaptive"
    /\ tracker.stepDetector.totalSamples = recomputeEvery
    /\ tracker.stepDetector.dynamicThreshold > tracker.stepDetector.baseThreshold
    /\ tracker.stepDetector.dynamicThreshold =
           tracker.stepDetector.avgMagnitude + tracker.stepDetector.magnitudeStdDev
    /\ tracker.stepDetector.magnitudeStdDev # initialStdDev

C28_ProminenceStrictlyExceeds ==
    /\ [](~ StepDetectorNew.falsePositiveFilter)
    /\ [][(MotionHandled /\ tracker.stepDetector.falsePositiveFilter) =>
            LET d1 == tracker'.stepDetector
            IN  /\ moved' =>
                      2 * (d1.lastMagnitude - MinSeq(d1.magnitudeHistory)) >
                          3 * d1.magnitudeStdDev
                /\ ~ moved' =>
                      d1.stepCount = stepCount /\ tracker'.position = position]_vars

\* C29: setSensitivity sets baseThreshold to 11 divided by the multiplier
\* of the tier (low 1.0, medium 1.5, high 2.0), so that a higher tier has a
\* strictly lower base threshold; any other level counts as medium; and
\* the call changes nothing else in the detector.
C29_SensitivityTiers ==
    /\ [](LET base(level) ==
                  StepDetectorSetSensitivity(tracker.stepDetector, level).baseThreshold
          IN  base("low") > base("medium") /\ base("medium") > base("high"))
    /\ [][\A level \in SensitivityLevels : SetSensitivity(level) =>
            LET d  == tracker.stepDetector
                d1 == tracker'.stepDetector
                tenths == CASE level = "low"  -> 10
                            [] level = "high" -> 20
                            [] OTHER          -> 15
            IN  /\ d1.baseThreshold = (sensitivityNumerator * 10) \div tenths
                /\ [d1 EXCEPT !.baseThreshold = d.baseThreshold] = d
                /\ tracker'.position = position]_vars

\* C30: for the tracker with the fixed-threshold detector, reset() zeroes
\* the detector's step count, cooldown and previous magnitude, so that the
\* samples that follow a reset() give the same step results and positions
\* as they give a freshly constructed tracker.
C30_FixedReplayAfterResetEqualsFresh ==
    /\ [][(ResetClick /\ variant = "fixed") =>
            /\ tracker'.stepDetector.stepCount = 0
            /\ tracker'.stepDetector.cooldown = 0
            /\ tracker'.stepDetector.lastMagnitude = 0]_vars
    /\ []((variant = "fixed" /\ fresh # Null) =>
            /\ Val(fresh).stepDetector.stepCount = stepCount
            /\ Val(fresh).position = position)

\* C31: in the fixed-threshold detector the deltaTime values of the samples
\* processed after an accepted step sum to at least cooldownTime before the
\* next step is accepted: a step is accepted only when the cooldown, set to
\* cooldownTime by the previous step and lowered by each sample's deltaTime,
\* has run out; the cooldown always stays within 0..cooldownTime.
C31_CooldownBetweenSteps ==
    /\ [](variant = "fixed" =>
            /\ tracker.stepDetector.cooldown \in 0..cooldownTime
            /\ \A i \in 2..Len(moves) : moves[i] - moves[i - 1] >= cooldownTime)
    /\ [][(MotionHandled /\ variant = "fixed") =>
            LET cooldown  == tracker.stepDetector.cooldown
                deltaTime == now' - lastTime
            IN  /\ moved' => cooldown - deltaTime <= 0
                /\ tracker'.stepDetector.cooldown =
                       IF moved' THEN cooldownTime
                       ELSE Max(0, cooldown - deltaTime)]_vars

\* a second step accepted exactly cooldownTime after the first
C31_Witness ==
    /\ variant = "fixed" /\ moved
    /\ Len(moves) = 2 /\ moves[2] = now
    /\ moves[2] - moves[1] = cooldownTime
    /\ tracker.stepDetector.cooldown = cooldownTime

\* C32: the fixed-threshold detector accepts a step exactly on a rising
\* edge (the previous sample's magnitude strictly below the threshold, the
\* current one strictly above it) with the cooldown run out and the
\* detector enabled; every processed sample becomes the previous magnitude,
\* so an edge that arrives during the cooldown is not counted by a later
\* sample unless the magnitude fell below the threshold in between.
C32_RisingEdgeOnly ==
    [][\A payload \in WalkPayloads, dt \in CooldownDeltaTs :
          (variant = "fixed" /\ DeviceMotion(payload, dt)) =>
              LET d  == tracker.stepDetector
                  d1 == tracker'.stepDetector
                  magnitude == RawMagnitude(AccelOf(payload))
              IN  /\ d1.lastMagnitude = magnitude
                  /\ moved' <=> /\ d.enabled
                                /\ d.lastMagnitude < d.threshold
                                /\ magnitude > d.threshold
                                /\ d.cooldown - dt <= 0
                  /\ d1.stepCount = d.stepCount + (IF moved' THEN 1 ELSE 0)]_vars

\* a sample above the threshold, 300 ms after the only step, that was not
\* counted because the sample before it was above the threshold too
C32_Witness ==
    /\ variant = "fixed" /\ ~ moved
    /\ tracker.stepDetector.enabled
    /\ stepCount = 1 /\ Len(moves) = 1
    /\ now - moves[1] = cooldownTime
    /\ tracker.stepDetector.cooldown = 0
    /\ tracker.stepDetector.lastMagnitude > tracker.stepDetector.threshold

\* C33: a sample handled while the detector is disabled reports no step and
\* changes neither stepCount nor position; in the adaptive detector it
\* changes nothing at all, in the fixed-threshold detector it lowers the
\* cooldown and becomes the previous magnitude, and changes nothing else.
C33_DisabledFrame ==
    [][\A payload \in WalkPayloads, dt \in DeltaTs :
          (DeviceMotion(payload, dt) /\ ~ tracker.stepDetector.enabled) =>
              /\ ~ moved'
              /\ tracker'.stepDetector.stepCount = stepCount
              /\ tracker'.position = position
              /\ variant = "adaptive" => tracker' = tracker
              /\ variant = "fixed" =>
                     tracker' = [tracker EXCEPT
                         !.stepDetector.cooldown = Max(0, @ - dt),
                         !.stepDetector.lastMagnitude =
                             RawMagnitude(AccelOf(payload))]]_vars

\* the adaptive detector, disabled after its first step, has been handed
\* two more samples: eight handled, six counted
C33_Witness ==
    /\ variant = "adaptive"
    /\ ~ tracker.stepDetector.enabled
    /\ stepCount = 1
    /\ tracker.stepDetector.totalSamples = 6
    /\ now = StartTime + 1600

\* C34: with the filter enabled, after every processed sample the filtered
\* magnitude lies between the previous filtered magnitude and the raw
\* magnitude of the sample, bounds included; with alpha = 1 it equals the
\* raw magnitude; with the filter disabled it is left unchanged and the raw
\* magnitude enters the window.
C34_FilteredBetween ==
    [][\A rawMagnitude \in LowPassSamples : LowPassSample(rawMagnitude) =>
          LET d  == tracker.stepDetector
              d1 == tracker'.stepDetector
              h  == d1.magnitudeHistory
          IN  /\ d.useFilter =>
                     /\ d1.filteredMagnitude >= Min(d.filteredMagnitude, rawMagnitude)
                     /\ d1.filteredMagnitude <= Max(d.filteredMagnitude, rawMagnitude)
                     /\ h[Len(h)] = d1.filteredMagnitude
              /\ (d.useFilter /\ d.filterAlpha = FloatOf(1, 1)) =>
                     d1.filteredMagnitude = rawMagnitude
              /\ ~ d.useFilter =>
                     /\ d1.filteredMagnitude = d.filteredMagnitude
                     /\ h[Len(h)] = rawMagnitude]_vars

\* C35: initializeSystem runs exactly once per page load, whatever
\* document.readyState is when the script executes: the reset button gets
\* exactly one click handler, and one click calls tracker.reset() once.
C35_InitializedOnce ==
    /\ [](page.initialized <= 1 /\ page.resetHandlers <= 1)
    /\ []((page.executed /\ ~ page.pending) =>
              (page.initialized = 1 /\ page.resetHandlers = 1))
    /\ [][ResetClick => page'.resetCalls = 1]_vars

====
